---- MODULE Spec2Model ----
(***************************************************************************)
(* Model of the safebox contract (contract/src/lib.rs): struct Welcome     *)
(* with its HashMap `records` and the three methods deposit, get_deposit   *)
(* and withdraw.  Every method call is one atomic step (the host runs one  *)
(* call to completion before the next).                                    *)
(***************************************************************************)
EXTENDS Integers, Sequences, FiniteSets, TLC

\* ------------------------------------------------------------------ bounds
\* Attached deposits range over 0 .. MaxAmount (Balance is u128; the contract
\* does no arithmetic on it, it only stores, compares with 0 and copies).
MaxAmount == 2
\* Number of method calls in one execution.
MaxCalls == 4

\* The `hash` arguments callers pass, and the calling accounts.
Keys == {"secret", "other"}
Accounts == {"carol_near", "bob_near"}
\* The accounts that call deposit (deposit never reads its caller).
Depositors == {"carol_near"}
Amounts == 0 .. MaxAmount

VARIABLES
    records,    \* Welcome.records : HashMap<String, Balance>
    transfers,  \* the transfer promises created so far, in order
    logs,       \* the messages passed to env::log, in order
    history     \* the calls made so far with their outcome (observer's record)

vars == <<records, transfers, logs, history>>

\* ------------------------------------------------------------ pure helpers
\* Faulty variant of insert: keeps the value of a key already present
\* (the behaviour of entry(key).or_insert(value)).
insert_keep(map, key, value) ==
    [k \in (DOMAIN map) \cup {key} |->
        IF k \in DOMAIN map THEN map[k] ELSE value]

\* HashMap::insert(key, value): add the entry or overwrite the present one.
insert(map, key, value) ==
    [k \in (DOMAIN map) \cup {key} |-> IF k = key THEN value ELSE map[k]]

\* Faulty variant of get_deposit: the None arm yields a nonzero default.
get_deposit_bad_default(recs, hash) ==
    IF hash \in DOMAIN recs THEN recs[hash] ELSE 1

\* Welcome::get_deposit: the stored amount, 0 for a key with no entry.
get_deposit(recs, hash) ==
    IF hash \in DOMAIN recs THEN recs[hash] ELSE 0

\* Promise::new(account_id).transfer(amount): the promise is created and the
\* call goes on without waiting for it; no callback is attached, so its result
\* ("Succeeded" or "Failed") is only ever known to the host.
Transfer(account_id, amount) ==
    [receiver_id |-> account_id, amount |-> amount, status |-> "Pending"]

\* One call as the caller sees it.  outcome: "Done" (deposit returned),
\* "Read" (get_deposit returned `ret`), "Paid" (withdraw returned true),
\* "Rejected" (withdraw returned false), "Aborted" (withdraw panicked).
Call(op, hash, attached, predecessor, outcome, ret) ==
    [op |-> op, hash |-> hash, attached_deposit |-> attached,
     predecessor |-> predecessor, outcome |-> outcome, ret |-> ret]

\* ------------------------------------------------------------------- state
Init ==
    /\ records = <<>>
    /\ transfers = <<>>
    /\ logs = <<>>
    /\ history = <<>>

\* ----------------------------------------------------------------- actions
\* Faulty variant of deposit: adds the attached amount to the stored one.
deposit_accumulate(hash, attached, predecessor) ==
    /\ Len(history) < MaxCalls
    /\ records' = insert(records, hash, get_deposit(records, hash) + attached)
    /\ UNCHANGED <<transfers, logs>>
    /\ history' = Append(history,
                         Call("deposit", hash, attached, predecessor, "Done", 0))

\* Faulty variant of deposit: refuses a key that already has an entry.
deposit_fresh_only(hash, attached, predecessor) ==
    /\ Len(history) < MaxCalls
    /\ hash \notin DOMAIN records
    /\ records' = insert(records, hash, attached)
    /\ UNCHANGED <<transfers, logs>>
    /\ history' = Append(history,
                         Call("deposit", hash, attached, predecessor, "Done", 0))

\* Welcome::deposit(hash), called by `predecessor` with `attached` attached.
deposit(hash, attached, predecessor) ==
    /\ Len(history) < MaxCalls
    /\ records' = insert(records, hash, attached)
    /\ UNCHANGED <<transfers, logs>>
    /\ history' = Append(history,
                         Call("deposit", hash, attached, predecessor, "Done", 0))

\* Welcome::get_deposit(hash) called as a view method.
view_get_deposit(hash) ==
    /\ Len(history) < MaxCalls
    /\ UNCHANGED <<records, transfers, logs>>
    /\ history' = Append(history,
                         Call("get_deposit", hash, 0, "view", "Read",
                              get_deposit(records, hash)))

\* Faulty variant of withdraw_paid: the stored amount is not reset.
withdraw_paid_no_zero(hash, predecessor) ==
    /\ hash \in DOMAIN records
    /\ records[hash] > 0
    /\ transfers' = Append(transfers, Transfer(predecessor, records[hash]))
    /\ UNCHANGED <<records, logs>>
    /\ history' = Append(history,
                         Call("withdraw", hash, 0, predecessor, "Paid", 0))

\* Faulty variant of withdraw_paid: the entry is reset first and the amount
\* to transfer is read afterwards.
withdraw_paid_zero_first(hash, predecessor) ==
    /\ hash \in DOMAIN records
    /\ records[hash] > 0
    /\ records' = insert(records, hash, 0)
    /\ transfers' = Append(transfers, Transfer(predecessor, records'[hash]))
    /\ UNCHANGED logs
    /\ history' = Append(history,
                         Call("withdraw", hash, 0, predecessor, "Paid", 0))

\* Faulty variant of withdraw_paid: every entry is reset, not only `hash`.
withdraw_paid_clears_all(hash, predecessor) ==
    /\ hash \in DOMAIN records
    /\ records[hash] > 0
    /\ transfers' = Append(transfers, Transfer(predecessor, records[hash]))
    /\ records' = [k \in DOMAIN records |-> 0]
    /\ UNCHANGED logs
    /\ history' = Append(history,
                         Call("withdraw", hash, 0, predecessor, "Paid", 0))

\* Faulty variant of withdraw_paid: the entry is removed instead of reset.
withdraw_paid_removes(hash, predecessor) ==
    /\ hash \in DOMAIN records
    /\ records[hash] > 0
    /\ transfers' = Append(transfers, Transfer(predecessor, records[hash]))
    /\ records' = [k \in (DOMAIN records) \ {hash} |-> records[k]]
    /\ UNCHANGED logs
    /\ history' = Append(history,
                         Call("withdraw", hash, 0, predecessor, "Paid", 0))

\* Faulty variant of withdraw_paid: only the account that made the latest
\* deposit under `hash` is paid.
withdraw_paid_owner_only(hash, predecessor) ==
    /\ hash \in DOMAIN records
    /\ records[hash] > 0
    /\ \E i \in 1 .. Len(history) :
          /\ history[i].op = "deposit"
          /\ history[i].hash = hash
          /\ history[i].predecessor = predecessor
    /\ transfers' = Append(transfers, Transfer(predecessor, records[hash]))
    /\ records' = insert(records, hash, 0)
    /\ UNCHANGED logs
    /\ history' = Append(history,
                         Call("withdraw", hash, 0, predecessor, "Paid", 0))

\* Welcome::withdraw, Some(deposit) arm with the assertion holding.
withdraw_paid(hash, predecessor) ==
    /\ hash \in DOMAIN records
    /\ records[hash] > 0
    /\ transfers' = Append(transfers, Transfer(predecessor, records[hash]))
    /\ records' = insert(records, hash, 0)
    /\ UNCHANGED logs
    /\ history' = Append(history,
                         Call("withdraw", hash, 0, predecessor, "Paid", 0))

\* Faulty variant of withdraw_aborted: a zero amount is turned down like an
\* unknown key instead of failing the assertion.
withdraw_zero_rejected(hash, predecessor) ==
    /\ hash \in DOMAIN records
    /\ ~(records[hash] > 0)
    /\ logs' = Append(logs, "Wrong key")
    /\ UNCHANGED <<records, transfers>>
    /\ history' = Append(history,
                         Call("withdraw", hash, 0, predecessor, "Rejected", 0))

\* Welcome::withdraw, Some(deposit) arm with assert!(deposit > &0) failing:
\* the call panics with "Missing deposit" before anything was changed.
withdraw_aborted(hash, predecessor) ==
    /\ hash \in DOMAIN records
    /\ ~(records[hash] > 0)
    /\ UNCHANGED <<records, transfers, logs>>
    /\ history' = Append(history,
                         Call("withdraw", hash, 0, predecessor, "Aborted", 0))

\* Faulty variant of withdraw_rejected: the lookup creates a zero entry
\* (the behaviour of entry(hash).or_insert(0)).
withdraw_rejected_creates_entry(hash, predecessor) ==
    /\ hash \notin DOMAIN records
    /\ logs' = Append(logs, "Wrong key")
    /\ records' = insert(records, hash, 0)
    /\ UNCHANGED transfers
    /\ history' = Append(history,
                         Call("withdraw", hash, 0, predecessor, "Rejected", 0))

\* Welcome::withdraw, None arm.
withdraw_rejected(hash, predecessor) ==
    /\ hash \notin DOMAIN records
    /\ logs' = Append(logs, "Wrong key")
    /\ UNCHANGED <<records, transfers>>
    /\ history' = Append(history,
                         Call("withdraw", hash, 0, predecessor, "Rejected", 0))

\* Welcome::withdraw(hash), called by `predecessor`.
withdraw(hash, predecessor) ==
    /\ Len(history) < MaxCalls
    /\ \/ withdraw_paid(hash, predecessor)
       \/ withdraw_aborted(hash, predecessor)
       \/ withdraw_rejected(hash, predecessor)

\* Faulty variant of transfer_result: a failed transfer puts the amount back
\* under the key it was withdrawn from (a refund callback the code lacks).
transfer_result_restores(i, status) ==
    /\ i \in 1 .. Len(transfers)
    /\ transfers[i].status = "Pending"
    /\ transfers' = [transfers EXCEPT ![i].status = status]
    /\ records' = IF status = "Failed"
                  THEN [k \in DOMAIN records |->
                           IF records[k] = 0 THEN transfers[i].amount
                           ELSE records[k]]
                  ELSE records
    /\ UNCHANGED <<logs, history>>

\* The host settles the i-th transfer promise after the call that created it
\* has returned.  withdraw attached no callback: the contract is not run.
transfer_result(i, status) ==
    /\ i \in 1 .. Len(transfers)
    /\ transfers[i].status = "Pending"
    /\ transfers' = [transfers EXCEPT ![i].status = status]
    /\ UNCHANGED <<records, logs, history>>

Next ==
    \/ \E hash \in Keys, attached \in Amounts, predecessor \in Depositors :
           deposit(hash, attached, predecessor)
    \/ \E hash \in Keys : view_get_deposit(hash)
    \/ \E hash \in Keys, predecessor \in Accounts : withdraw(hash, predecessor)
    \/ \E i \in 1 .. Len(transfers), status \in {"Succeeded", "Failed"} :
           transfer_result(i, status)

Spec == Init /\ [][Next]_vars

\* ------------------------------------------------- observations on a run
\* The most recent call.
Last == history[Len(history)]

\* This step is a call (every action appends the call it made).
Called == Len(history') = Len(history) + 1

\* The call made by this step.
NewCall == history'[Len(history')]

IsDeposit(c, k) == c.op = "deposit" /\ c.hash = k
IsWithdraw(c, k) == c.op = "withdraw" /\ c.hash = k
IsPaid(c, k) == IsWithdraw(c, k) /\ c.outcome = "Paid"

\* Positions lo .. hi of the history hold no deposit on k.
NoDepositIn(k, lo, hi) == \A m \in lo .. hi : ~IsDeposit(history[m], k)
\* Positions lo .. hi of the history hold no withdraw on k.
NoWithdrawIn(k, lo, hi) == \A m \in lo .. hi : ~IsWithdraw(history[m], k)

\* withdraw(k) was called and no deposit on k was made since.
WithdrawnSinceDeposit(k) ==
    \E i \in 1 .. Len(history) :
        IsWithdraw(history[i], k) /\ NoDepositIn(k, i + 1, Len(history))

\* The amounts attached to the deposits among the calls s, summed.
RECURSIVE SumDeposited(_)
SumDeposited(s) ==
    IF s = <<>> THEN 0
    ELSE (IF Head(s).op = "deposit" THEN Head(s).attached_deposit ELSE 0)
         + SumDeposited(Tail(s))

\* The amounts of the transfers s, summed.
RECURSIVE SumTransferred(_)
SumTransferred(s) ==
    IF s = <<>> THEN 0 ELSE Head(s).amount + SumTransferred(Tail(s))

\* The amounts stored under the keys ks, summed.
RECURSIVE SumStored(_, _)
SumStored(recs, ks) ==
    IF ks = {} THEN 0
    ELSE LET k == CHOOSE x \in ks : TRUE
         IN  recs[k] + SumStored(recs, ks \ {k})

TotalDeposited == SumDeposited(history)
TotalTransferred == SumTransferred(transfers)
TotalStored == SumStored(records, DOMAIN records)

NumDeposits(k) == Cardinality({i \in 1 .. Len(history) : IsDeposit(history[i], k)})
NumPaid(k) == Cardinality({i \in 1 .. Len(history) : IsPaid(history[i], k)})

\* ------------------------------------------------------------------ claims

\* C1: No double payout.  A withdraw(k) made after an earlier withdraw(k), with
\* no deposit on k in between, never returns Paid, creates no transfer and
\* leaves the mapping unchanged; so of two such calls at most one is Paid.
C1_NoDoublePayout ==
    [][\A k \in Keys :
          (WithdrawnSinceDeposit(k) /\ Called /\ IsWithdraw(NewCall, k))
              => /\ NewCall.outcome # "Paid"
                 /\ transfers' = transfers
                 /\ records' = records]_vars

\* A Paid withdraw(k) directly followed by a second withdraw(k).
C1_Witness ==
    /\ Len(history) >= 2
    /\ \E k \in Keys :
          /\ IsPaid(history[Len(history) - 1], k)
          /\ IsWithdraw(Last, k)
          /\ Len(transfers) = 1
          /\ transfers[1].amount > 0

\* C2: At most one successful withdrawal per deposit cycle.  Between any two
\* Paid withdrawals of k the history holds a deposit on k, a Paid withdrawal
\* of k is preceded by a deposit on k, and the Paid withdrawals of k never
\* outnumber the deposits on k.
C2_OnePaidPerDeposit ==
    \A k \in Keys :
        /\ \A i, j \in 1 .. Len(history) :
              (i < j /\ IsPaid(history[i], k) /\ IsPaid(history[j], k))
                  => ~NoDepositIn(k, i + 1, j - 1)
        /\ \A j \in 1 .. Len(history) :
              IsPaid(history[j], k) => ~NoDepositIn(k, 1, j - 1)
        /\ NumPaid(k) <= NumDeposits(k)

\* Two Paid withdrawals of one key, each after its own deposit.
C2_Witness ==
    \E k \in Keys : NumPaid(k) = 2 /\ NumDeposits(k) = 2

\* C3: Withdraw pays the full balance and zeroes it.  A withdraw(k) called
\* while the stored amount of k is a > 0 returns Paid, appends one transfer of
\* exactly a to the caller, and get_deposit(k) is 0 afterwards.
C3_WithdrawPaysAll ==
    [][\A k \in Keys :
          (get_deposit(records, k) > 0 /\ Called /\ IsWithdraw(NewCall, k))
              => /\ NewCall.outcome = "Paid"
                 /\ transfers' = Append(transfers,
                                        Transfer(NewCall.predecessor,
                                                 get_deposit(records, k)))
                 /\ get_deposit(records', k) = 0]_vars

\* A withdraw that paid the largest amount and left the key reading 0.
C3_Witness ==
    /\ Len(history) >= 2
    /\ IsDeposit(history[Len(history) - 1], Last.hash)
    /\ history[Len(history) - 1].attached_deposit = MaxAmount
    /\ IsPaid(Last, Last.hash)
    /\ transfers[Len(transfers)].amount = MaxAmount
    /\ get_deposit(records, Last.hash) = 0

\* C4: Deposit-then-read.  Right after deposit(k) with attached amount a,
\* whatever k held before, get_deposit(k) returns a.
C4_DepositThenRead ==
    (Len(history) > 0 /\ Last.op = "deposit")
        => get_deposit(records, Last.hash) = Last.attached_deposit

\* A deposit on a key that already held a different positive amount.
C4_Witness ==
    /\ Len(history) >= 2
    /\ Last.op = "deposit"
    /\ IsDeposit(history[Len(history) - 1], Last.hash)
    /\ history[Len(history) - 1].attached_deposit > 0
    /\ Last.attached_deposit > 0
    /\ history[Len(history) - 1].attached_deposit # Last.attached_deposit
    /\ get_deposit(records, Last.hash) = Last.attached_deposit

\* C5: Transfers correspond one-to-one with Paid outcomes.  A call that
\* returns Paid appends exactly one transfer, of the amount stored for its
\* key right before the call; every other call (deposit, get_deposit, a
\* rejected or aborted withdraw) leaves the transfers as they were.
C5_TransferPerPaid ==
    [][Called =>
          IF NewCall.outcome = "Paid"
          THEN /\ NewCall.op = "withdraw"
               /\ transfers' = Append(transfers,
                                      Transfer(NewCall.predecessor,
                                               get_deposit(records, NewCall.hash)))
          ELSE transfers' = transfers]_vars

\* One Paid withdraw, one aborted and one rejected: a single transfer.
C5_Witness ==
    /\ \E i \in 1 .. Len(history) : history[i].outcome = "Paid"
    /\ \E i \in 1 .. Len(history) : history[i].outcome = "Aborted"
    /\ \E i \in 1 .. Len(history) : history[i].outcome = "Rejected"
    /\ Len(transfers) = 1

\* C6: Unknown-key withdrawal is a no-op.  A withdraw(k) called while k has
\* no entry returns Rejected, logs "Wrong key", creates no transfer and
\* leaves the mapping (its keys and amounts) unchanged.
C6_UnknownKeyNoOp ==
    [][\A k \in Keys :
          (k \notin DOMAIN records /\ Called /\ IsWithdraw(NewCall, k))
              => /\ NewCall.outcome = "Rejected"
                 /\ logs' = Append(logs, "Wrong key")
                 /\ transfers' = transfers
                 /\ records' = records]_vars

\* A rejected withdraw on an absent key while another key holds funds.
C6_Witness ==
    /\ Len(history) > 0
    /\ Last.op = "withdraw"
    /\ Last.outcome = "Rejected"
    /\ Last.hash \notin DOMAIN records
    /\ \E j \in DOMAIN records : records[j] > 0
    /\ Len(logs) > 0

\* C7: No loss of funds.  The amounts ever attached to deposits equal the
\* amounts still stored plus the amounts transferred out.
C7_NoLossOfFunds ==
    TotalDeposited = TotalStored + TotalTransferred

\* C8: Deposit replaces, it does not accumulate.  When deposit(k) with a2
\* follows an earlier deposit(k) with no withdraw(k) in between, then as long
\* as no further call touches k the stored amount is a2; and when the next
\* call on k is a withdraw and a2 > 0, it is Paid and transfers exactly a2.
C8_DepositReplaces ==
    \A k \in Keys : \A i, j \in 1 .. Len(history) :
        (/\ i < j
         /\ IsDeposit(history[i], k)
         /\ IsDeposit(history[j], k)
         /\ NoWithdrawIn(k, i + 1, j - 1))
        => LET a2 == history[j].attached_deposit
               n == Len(history)
           IN  /\ (NoDepositIn(k, j + 1, n) /\ NoWithdrawIn(k, j + 1, n))
                      => get_deposit(records, k) = a2
               /\ (/\ j < n
                   /\ IsWithdraw(Last, k)
                   /\ NoDepositIn(k, j + 1, n - 1)
                   /\ NoWithdrawIn(k, j + 1, n - 1)
                   /\ a2 > 0)
                      => /\ Last.outcome = "Paid"
                         /\ transfers[Len(transfers)].amount = a2

\* deposit(k, 1), deposit(k, 2), withdraw(k): the transfer is 2, not 3.
C8_Witness ==
    /\ Len(history) = 3
    /\ \E k \in Keys :
          /\ IsDeposit(history[1], k) /\ history[1].attached_deposit = 1
          /\ IsDeposit(history[2], k) /\ history[2].attached_deposit = 2
          /\ IsPaid(history[3], k)
    /\ transfers[1].amount = 2

\* C9: Balances move only in the stated directions.  In every step the
\* stored amount of a key rises only by a deposit on that key and falls only
\* by a Paid withdraw on that key, which sets it to zero.
C9_BalanceDirections ==
    [][\A k \in Keys :
          /\ get_deposit(records', k) > get_deposit(records, k)
                => (Called /\ IsDeposit(NewCall, k))
          /\ get_deposit(records', k) < get_deposit(records, k)
                => (Called /\ IsPaid(NewCall, k)
                           /\ get_deposit(records', k) = 0)]_vars

\* C10: Unknown key reads zero.  A key on which deposit was never called
\* reads 0 in every state, and every get_deposit call made on it before any
\* deposit returned 0.
C10_UnknownKeyReadsZero ==
    \A k \in Keys :
        /\ NumDeposits(k) = 0 => get_deposit(records, k) = 0
        /\ \A i \in 1 .. Len(history) :
              (history[i].op = "get_deposit" /\ history[i].hash = k
                   /\ NoDepositIn(k, 1, i - 1))
                  => history[i].ret = 0

\* A never-deposited key read after a withdraw attempt on it and a deposit
\* on another key.
C10_Witness ==
    \E k \in Keys :
        /\ NumDeposits(k) = 0
        /\ \E i \in 1 .. Len(history) : IsWithdraw(history[i], k)
        /\ \E j \in Keys \ {k} : j \in DOMAIN records /\ records[j] > 0
        /\ Len(history) > 0
        /\ Last.op = "get_deposit" /\ Last.hash = k /\ Last.ret = 0

\* C11: Rejections change nothing and a payout changes one entry.  A withdraw
\* that does not pay (unknown key, or a stored amount of zero) leaves the
\* mapping as it was; a Paid withdraw(k) and a deposit(k) leave the presence
\* and the amount of every key other than k as they were; get_deposit changes
\* nothing at all.
C11_Frame ==
    [][Called =>
          LET c == NewCall
              k == NewCall.hash
          IN  /\ (c.op = "withdraw" /\ get_deposit(records, k) = 0)
                     => (c.outcome # "Paid" /\ records' = records)
              /\ (c.op = "withdraw" /\ c.outcome # "Paid")
                     => records' = records
              /\ c.op = "get_deposit"
                     => (records' = records /\ transfers' = transfers
                                            /\ logs' = logs)
              /\ \A j \in Keys \ {k} :
                     /\ (j \in DOMAIN records') <=> (j \in DOMAIN records)
                     /\ j \in DOMAIN records => records'[j] = records[j]]_vars

\* A Paid withdraw while the other key holds a positive amount.
C11_Witness ==
    /\ Len(history) > 0
    /\ IsPaid(Last, Last.hash)
    /\ records[Last.hash] = 0
    /\ \E j \in (DOMAIN records) \ {Last.hash} : records[j] > 0

\* C12: Deposit cannot fail.  Whenever a call can be made, deposit can be
\* called with every key (present or not) and every attached amount of the
\* range; every deposit call completes, and right after it the key is present
\* with exactly the attached amount.  (The range 0 .. 2^128-1 of Balance is
\* scaled to 0 .. MaxAmount.)
C12_DepositCannotFail ==
    /\ Len(history) < MaxCalls
           => \A k \in Keys, a \in Amounts, p \in Depositors :
                  ENABLED deposit(k, a, p)
    /\ \A i \in 1 .. Len(history) :
           history[i].op = "deposit" => history[i].outcome = "Done"
    /\ (Len(history) > 0 /\ Last.op = "deposit")
           => /\ Last.hash \in DOMAIN records
              /\ records[Last.hash] = Last.attached_deposit

\* The largest amount deposited on a key that already holds the largest amount.
C12_Witness ==
    /\ Len(history) >= 2
    /\ Last.op = "deposit"
    /\ Last.attached_deposit = MaxAmount
    /\ IsDeposit(history[Len(history) - 1], Last.hash)
    /\ history[Len(history) - 1].attached_deposit = MaxAmount
    /\ records[Last.hash] = MaxAmount

\* C13: Zero-balance withdrawal aborts instead of rejecting.  A withdraw(k)
\* called while k is present with stored amount 0 fails the assertion
\* ("Aborted"): it does not return false, logs nothing, creates no transfer
\* and leaves the mapping unchanged.
C13_ZeroBalanceAborts ==
    [][\A k \in Keys :
          (/\ k \in DOMAIN records
           /\ records[k] = 0
           /\ Called
           /\ IsWithdraw(NewCall, k))
              => /\ NewCall.outcome = "Aborted"
                 /\ logs' = logs
                 /\ transfers' = transfers
                 /\ records' = records]_vars

\* A withdraw aborted on a key that an earlier withdraw had paid out.
C13_Witness ==
    /\ Len(history) >= 2
    /\ IsPaid(history[Len(history) - 1], Last.hash)
    /\ Last.op = "withdraw"
    /\ Last.outcome = "Aborted"
    /\ records[Last.hash] = 0
    /\ logs = <<>>

IsPaidCall(c) == c.outcome = "Paid"
\* The Paid calls, in order: the n-th created the n-th transfer.
PaidCalls == SelectSeq(history, IsPaidCall)

\* withdraw(k) called by p ends with outcome o and, when Paid, transfers a.
WithdrawGives(k, p, o, a) ==
    /\ withdraw(k, p)
    /\ NewCall.outcome = o
    /\ o = "Paid" => transfers'[Len(transfers')].amount = a

\* C14: The key is a bearer claim-check.  Every transfer goes to the account
\* that made the Paid withdraw call, and in every state withdraw(k) has one
\* outcome and one transferred amount that every calling account gets,
\* whether or not it made the deposit under k.
C14_BearerKey ==
    /\ Len(PaidCalls) = Len(transfers)
    /\ \A n \in 1 .. Len(transfers) :
           transfers[n].receiver_id = PaidCalls[n].predecessor
    /\ Len(history) < MaxCalls
           => \A k \in Keys :
                  \E o \in {"Paid", "Rejected", "Aborted"}, a \in Amounts :
                      \A p \in Accounts : ENABLED WithdrawGives(k, p, o, a)

\* An account that made no deposit was paid what another account deposited.
C14_Witness ==
    /\ Len(history) >= 2
    /\ IsDeposit(history[Len(history) - 1], Last.hash)
    /\ IsPaid(Last, Last.hash)
    /\ Last.predecessor # history[Len(history) - 1].predecessor
    /\ transfers[Len(transfers)].receiver_id = Last.predecessor
    /\ transfers[Len(transfers)].amount = history[Len(history) - 1].attached_deposit

\* The position in the history of the call that created the n-th transfer.
PaidIndex(n) ==
    CHOOSE i \in 1 .. Len(history) :
        /\ IsPaidCall(history[i])
        /\ Cardinality({j \in 1 .. i : IsPaidCall(history[j])}) = n

\* A transfer paid out of k has failed and no deposit on k was made since
\* the withdraw that created it.
FailedFor(k) ==
    \E n \in 1 .. Len(transfers) :
        /\ transfers[n].status = "Failed"
        /\ history[PaidIndex(n)].hash = k
        /\ NoDepositIn(k, PaidIndex(n) + 1, Len(history))

\* C15: Fire-and-forget payout without retry.  The Paid call itself sets the
\* stored amount to 0 and leaves the transfer it created pending; the step that
\* settles a transfer, failed or not, leaves the mapping as it is; and while a
\* failed transfer of k has not been followed by a deposit on k, k reads 0 and
\* no withdraw(k) is Paid or creates a transfer.
C15_FireAndForget ==
    [][/\ (Called /\ NewCall.outcome = "Paid")
           => /\ records'[NewCall.hash] = 0
              /\ Len(transfers') = Len(transfers) + 1
              /\ transfers'[Len(transfers')].status = "Pending"
       /\ ~Called => records' = records
       /\ \A k \in Keys :
           /\ FailedFor(k)' => get_deposit(records', k) = 0
           /\ (FailedFor(k) /\ Called /\ IsWithdraw(NewCall, k))
                  => (NewCall.outcome # "Paid" /\ transfers' = transfers)]_vars

\* The transfer failed, the key reads 0 and a later withdraw was not paid.
C15_Witness ==
    /\ Len(history) >= 2
    /\ Len(transfers) = 1
    /\ transfers[1].status = "Failed"
    /\ transfers[1].amount > 0
    /\ IsPaid(history[Len(history) - 1], Last.hash)
    /\ Last.op = "withdraw"
    /\ Last.outcome # "Paid"
    /\ FailedFor(Last.hash)
    /\ records[Last.hash] = 0

\* C16: Entries are never removed.  A key on which deposit was executed is
\* present in every later state, and no withdraw(k) made after a deposit on k
\* takes the unknown-key branch (Rejected).
C16_EntriesPersist ==
    \A k \in Keys :
        /\ NumDeposits(k) > 0 => k \in DOMAIN records
        /\ \A i, j \in 1 .. Len(history) :
              (i < j /\ IsDeposit(history[i], k) /\ IsWithdraw(history[j], k))
                  => history[j].outcome # "Rejected"

\* A paid-out key is still present with amount 0 when read afterwards.
C16_Witness ==
    /\ Len(history) >= 3
    /\ Last.op = "get_deposit"
    /\ Last.ret = 0
    /\ \E i \in 1 .. Len(history) : IsPaid(history[i], Last.hash)
    /\ Last.hash \in DOMAIN records
    /\ records[Last.hash] = 0

\* The position of the most recent deposit on k.
LastDeposit(k) ==
    CHOOSE i \in 1 .. Len(history) :
        IsDeposit(history[i], k) /\ NoDepositIn(k, i + 1, Len(history))

\* C17: The stored amount is determined by the last mutating call on the key.
\* Every present key k has had a deposit; its stored amount is the amount
\* attached to the most recent deposit(k) when no Paid withdraw(k) came after
\* that deposit, and 0 otherwise.
C17_LastCallDecides ==
    \A k \in DOMAIN records :
        /\ NumDeposits(k) > 0
        /\ records[k] =
              IF \E m \in LastDeposit(k) + 1 .. Len(history) :
                     IsPaid(history[m], k)
              THEN 0
              ELSE history[LastDeposit(k)].attached_deposit

\* deposit(k, 1), a Paid withdraw(k), deposit(k, 2): k holds 2.
C17_Witness ==
    /\ Len(history) = 3
    /\ \E k \in Keys :
          /\ IsDeposit(history[1], k) /\ history[1].attached_deposit = 1
          /\ IsPaid(history[2], k)
          /\ IsDeposit(history[3], k) /\ history[3].attached_deposit = 2
          /\ records[k] = 2

\* C18: Solvency.  The stored amounts sum to at most what was deposited minus
\* what was transferred out, and the total transferred out never exceeds the
\* total deposited.
C18_Solvency ==
    /\ TotalStored <= TotalDeposited - TotalTransferred
    /\ TotalTransferred <= TotalDeposited

\* After a payout and an overwritten deposit the contract holds more than
\* the mapping records.
C18_Witness ==
    /\ TotalTransferred > 0
    /\ TotalStored > 0
    /\ TotalStored < TotalDeposited - TotalTransferred

====
